---- MODULE Spec2Model ----
(***************************************************************************)
(* Natural-source EM simulation (SimPEG/electromagnetics/natural_source/   *)
(* simulation.py): the per-frequency factorization cache Ainv, the model   *)
(* held by the simulation, the forward solve fields(m) and the sensitivity *)
(* products Jvec / Jtvec with their delayed (dask) tasks.                  *)
(***************************************************************************)
EXTENDS Integers, Sequences, FiniteSets, TLC

\* ---------------------------------------------------------------- bounds
MaxFreq == 2
MaxSrc == 2
MaxRx == 2
MaxBlocks == 4
MaxLoc == 2
NumModels == 2
MaxDiagLoc == 12
MaxParams == 2
MaxRaw == 2
MaxProbes == 2

\* ---------------------------------------------------------------- values
Models == 1..NumModels
\* Python None for a model argument / an unset self.model
NoModel == 0
\* Python None in a slot of self.Ainv
NoneF == [m |-> 0, nf |-> 0]
\* no fields object
NoF == [m |-> 0, stored |-> {}]
NoFail == [at |-> 0, kind |-> "none"]
NoRx == <<0, 0, 0>>

VARIABLES survey, dim, model, Ainv, held, call, graph, results, diag, proc

vars == <<survey, dim, model, Ainv, held, call, graph, results, diag, proc>>

\* ---------------------------------------------------------------- helpers
RECURSIVE SumSeq(_)
SumSeq(s) == IF s = <<>> THEN 0 ELSE Head(s) + SumSeq(Tail(s))

RECURSIVE Flatten(_)
Flatten(ss) == IF ss = <<>> THEN <<>> ELSE Head(ss) \o Flatten(Tail(ss))

\* ---------------------------------------------------------------- survey
\* A survey is a sequence of frequencies; each frequency a sequence of
\* sources; each source a sequence of receivers [component, nD].
SrcShapes == UNION {[1..n -> 1..MaxRx] : n \in 1..MaxSrc}

FreqShapes == UNION {[1..n -> SrcShapes] : n \in 1..MaxFreq}

ShapeBlocks(sh) == SumSeq([i \in 1..Len(sh) |-> SumSeq(sh[i])])

ShapePositions(sh) ==
    {<<nF, s, r>> \in (1..MaxFreq) \X (1..MaxSrc) \X (1..MaxRx) :
        nF <= Len(sh) /\ s <= Len(sh[nF]) /\ r <= sh[nF][s]}

\* receivers alternate real / imag; at most one receiver carries a tag
\* outside {real, imag}
RxComponent(bad, nF, s, r) ==
    IF <<nF, s, r>> = bad THEN "other"
    ELSE IF r % 2 = 1 THEN "real" ELSE "imag"

MakeSurvey(sh, bad, nloc) ==
    [nF \in 1..Len(sh) |->
        [s \in 1..Len(sh[nF]) |->
            [r \in 1..sh[nF][s] |->
                [component |-> RxComponent(bad, nF, s, r), nD |-> nloc]]]]

Surveys ==
    UNION {{MakeSurvey(sh, bad, nloc) :
                bad \in {NoRx} \cup ShapePositions(sh), nloc \in 1..MaxLoc} :
           sh \in {x \in FreqShapes : ShapeBlocks(x) <= MaxBlocks}}

\* surveys with one source per frequency and one real receiver per source
PlainSurveys ==
    {MakeSurvey([nF \in 1..n |-> <<1>>], NoRx, 1) : n \in 1..MaxFreq}

\* len(self.survey.frequencies) / survey.num_frequencies
num_frequencies == Len(survey)

\* survey.get_sources_by_frequency(freq), by frequency index
get_sources_by_frequency(nF) == survey[nF]

\* src.receiver_list
receiver_list(nF, s) == survey[nF][s]

\* survey.nD: the declared data count, every receiver's nD summed
nD ==
    SumSeq(Flatten([nF \in 1..Len(survey) |->
        [s \in 1..Len(survey[nF]) |->
            SumSeq([r \in 1..Len(survey[nF][s]) |-> survey[nF][s][r].nD])]]))

\* the (frequency, source) pairs in loop order of Jvec / Jtvec
PairSeq ==
    Flatten([nF \in 1..Len(survey) |->
        [s \in 1..Len(survey[nF]) |-> <<nF, s>>]])

\* ---------------------------------------------------------------- fields
\* the failure injected into one fields() run: the Solver construction
\* ("factorize") or the solve Ainv * rhs ("solve") of frequency `at` raises
FailChoices ==
    {NoFail} \cup [at : 1..num_frequencies, kind : {"factorize", "solve"}]

FactorizedBeforeFailure(i, fail) == fail.at = 0 \/ i < fail.at

\* frequency i's Solver(A) was constructed before the run ended
Factorized(i, fail) ==
    \/ fail.at = 0
    \/ i < fail.at
    \/ i = fail.at /\ fail.kind = "solve"

\* frequency i's solve finished and its field was stored in F
Solved(i, fail) == fail.at = 0 \/ i < fail.at

\* if m is not None: self.model = m
SetModel(m, model0) == IF m # NoModel THEN m ELSE model0

\* try: if self.Ainv[0] is not None: for i in range(n): self.Ainv[i].clean()
\* except: pass
\* The slots clean() was called on successfully. cleanFail = i makes the
\* clean() of slot i raise; an empty slot raises AttributeError; an empty
\* list raises IndexError. Every exception ends the loop silently.
RECURSIVE CleanLoop(_, _, _)
CleanLoop(i, A0, cleanFail) ==
    IF i > num_frequencies THEN {}
    ELSE IF i > Len(A0) \/ A0[i] = NoneF \/ i = cleanFail THEN {}
    ELSE {i} \cup CleanLoop(i + 1, A0, cleanFail)

Cleaned(A0, cleanFail) ==
    IF Len(A0) = 0 THEN {}
    ELSE IF A0[1] = NoneF THEN {}
    ELSE CleanLoop(1, A0, cleanFail)

\* clean() itself raised: slot cleanFail was reached by the loop
CleanRaised(A0, cleanFail) == cleanFail \in Cleaned(A0, 0)

\* the slots that held a factorization on which clean() was never called
\* before self.Ainv was overwritten
Uncleaned(A0, cleanFail) ==
    {i \in 1..Len(A0) : A0[i] # NoneF}
        \ (Cleaned(A0, cleanFail) \cup
              (IF CleanRaised(A0, cleanFail) THEN {cleanFail} ELSE {}))

AinvAfterFieldsKeep(m, A0, fail) ==
    [i \in 1..num_frequencies |->
        IF i <= Len(A0) /\ A0[i] # NoneF THEN A0[i]
        ELSE IF Factorized(i, fail) THEN [m |-> m, nf |-> i] ELSE NoneF]

\* self.Ainv = [None ...]; then self.Ainv[nf] = self.Solver(A, ...) for
\* every frequency reached, A assembled from the model just set
AinvAfterFields(m, A0, fail) ==
    [i \in 1..num_frequencies |->
        IF Factorized(i, fail) THEN [m |-> m, nf |-> i] ELSE NoneF]

\* the cache self.Ainv after a fields() run of the given variant: the 1-D
\* variant keeps its factorization in a local variable
CacheAfterFields(d, m, A0, fail) ==
    IF d = 3 THEN AinvAfterFields(m, A0, fail) ELSE A0

\* number of Solver constructions per frequency in one fields() run
SolverCalls(fail) ==
    [i \in 1..num_frequencies |-> IF Factorized(i, fail) THEN 1 ELSE 0]

NoSolverCalls == [i \in 1..num_frequencies |-> 0]

\* F[Src, ...] = e_s for Src = get_sources_by_frequency(freq)[0]
FieldsObject(m, fail) ==
    [m |-> m, stored |-> {<<i, 1>> : i \in {j \in 1..num_frequencies : Solved(j, fail)}}]

FieldsReturnPartial(m, fail) == FieldsObject(m, fail)

\* what fields() hands back: F on normal return, nothing when an exception
\* left the frequency loop
FieldsReturn(m, fail) ==
    IF fail.at = 0 THEN FieldsObject(m, fail) ELSE NoF

\* one complete fields(m) run from cache A0 and model model0
FieldsRun(d, m, A0, model0, fail, cleanFail) ==
    [ok      |-> fail.at = 0,
     model   |-> SetModel(m, model0),
     Ainv    |-> CacheAfterFields(d, SetModel(m, model0), A0, fail),
     F       |-> FieldsReturn(SetModel(m, model0), fail),
     nSolver |-> SolverCalls(fail),
     cleaned |-> IF d = 3 THEN Cleaned(A0, cleanFail) ELSE {},
     cleanRaised |-> d = 3 /\ CleanRaised(A0, cleanFail),
     uncleaned |-> IF d = 3 THEN Uncleaned(A0, cleanFail) ELSE {}]

\* ---------------------------------------------------------------- Jvec
\* self.Ainv[nF] * x needs a list long enough and a slot that is not None
SlotUsable(A, nF) == nF <= Len(A) /\ A[nF] # NoneF

\* u_src = f[src, :]
FieldOf(f, nF, s) == [m |-> f.m, stored |-> <<nF, s>> \in f.stored]

\* number_of_components = len(first source of first frequency .receiver_list)
number_of_components == Len(receiver_list(1, 1))

\* m_dim = int(self.survey.nD / (number_of_components * number_of_frequencies))
m_dim == nD \div (number_of_components * num_frequencies)

\* dask.delayed(rx.evalDeriv)(src, self.mesh, f, mkvc(du_dm_v)) for every rx
\* of src, appended in receiver_list order; du_dm_v was solved with slot A[nF]
JvecBlocks(nF, s, A, f) ==
    [r \in 1..Len(receiver_list(nF, s)) |->
        [nF |-> nF, s |-> s, r |-> r, fm |-> A[nF].m, um |-> f.m,
         ustored |-> FieldOf(f, nF, s).stored,
         len |-> receiver_list(nF, s)[r].nD, val |-> 0]]

\* the double loop of Jvec over frequencies and sources: stops with an
\* exception at the first pair whose cache slot cannot be applied
RECURSIVE JvecLoop(_, _, _, _)
JvecLoop(pairs, A, f, acc) ==
    IF pairs = <<>> THEN acc
    ELSE LET nF == Head(pairs)[1]
             s  == Head(pairs)[2]
         IN  IF ~SlotUsable(A, nF)
             THEN [acc EXCEPT !.ok = FALSE]
             ELSE JvecLoop(Tail(pairs), A, f,
                      [ok      |-> TRUE,
                       applied |-> acc.applied \cup {A[nF]},
                       tasks   |-> acc.tasks \o JvecBlocks(nF, s, A, f)])

\* ---------------------------------------------------------------- Jtvec
\* the receivers of src up to and including the first whose component is
\* neither real nor imag have been looked at when the exception is raised
BadComponent(nF, s) ==
    \E r \in 1..Len(receiver_list(nF, s)) :
        receiver_list(nF, s)[r].component \notin {"real", "imag"}

\* rx.evalDeriv(src, mesh, f, mkvc(v[src, rx]), adjoint=True), as an integer
evalDerivAdjoint(nF, s, r) == s + r

\* PTv += evalDeriv for 'real', PTv += -evalDeriv for 'imag'
RECURSIVE PTvSum(_, _, _)
PTvSum(nF, s, r) ==
    IF r = 0 THEN 0
    ELSE PTvSum(nF, s, r - 1) +
         (IF receiver_list(nF, s)[r].component = "real"
          THEN evalDerivAdjoint(nF, s, r)
          ELSE 0 - evalDerivAdjoint(nF, s, r))

PTv(nF, s) == PTvSum(nF, s, Len(receiver_list(nF, s)))

\* dA_duIT = mkvc(self.Ainv[nF] * PTv)
dA_duIT(nF, s, A) == A[nF].m * PTv(nF, s)

\* getADeriv(freq, u_src, dA_duIT, adjoint=True), as an integer
getADerivAdjoint(nF, u, x) == 3 * nF * u.m * x

\* getRHSDeriv(freq, dA_duIT, adjoint=True), as an integer
getRHSDerivAdjoint(nF, x) == nF * x

\* du_dmT = -dA_dmT + dRHS_dmT; its real part is what is added to Jtv
du_dmT(nF, u, x) == (0 - getADerivAdjoint(nF, u, x)) + getRHSDerivAdjoint(nF, x)

\* the delayed task of one (frequency, source) pair
JtvecTask(nF, s, A, f) ==
    [nF |-> nF, s |-> s, r |-> 0, fm |-> A[nF].m, um |-> f.m,
     ustored |-> FieldOf(f, nF, s).stored,
     len |-> 0, val |-> du_dmT(nF, FieldOf(f, nF, s), dA_duIT(nF, s, A))]

\* the double loop of Jtvec: raises at the first source holding a receiver
\* with a bad component, or at the first slot that cannot be applied
RECURSIVE JtvecLoop(_, _, _, _)
JtvecLoop(pairs, A, f, acc) ==
    IF pairs = <<>> THEN acc
    ELSE LET nF == Head(pairs)[1]
             s  == Head(pairs)[2]
         IN  IF BadComponent(nF, s) \/ ~SlotUsable(A, nF)
             THEN [acc EXCEPT !.ok = FALSE]
             ELSE JtvecLoop(Tail(pairs), A, f,
                      [ok      |-> TRUE,
                       applied |-> acc.applied \cup {A[nF]},
                       tasks   |-> Append(acc.tasks, JtvecTask(nF, s, A, f))])

LoopStart == [ok |-> TRUE, applied |-> {}, tasks |-> <<>>]

\* ---------------------------------------------------------------- calls
\* the record of the call in progress or last completed; prev summarises
\* the call before it
NoPrev == [op |-> "none", nSolver |-> <<>>, F |-> NoF]

\* what is remembered of the previous call: kept only when it was a
\* fields() call that returned normally
Summary(c) ==
    IF c.op = "fields" /\ c.status = "ok"
    THEN [op |-> c.op, nSolver |-> c.nSolver, F |-> c.F]
    ELSE NoPrev

NoCall ==
    [op |-> "none", m |-> 0, f |-> NoF, status |-> "ok", fail |-> NoFail,
     forward |-> FALSE, nSolver |-> <<>>, applied |-> {}, F |-> NoF,
     Jv |-> <<>>, Jtv |-> 0, declLen |-> 0, cleaned |-> {},
     cleanRaised |-> FALSE, uncleaned |-> {}, prev |-> NoPrev]

NeedsForwardAlways(f) == TRUE

NeedsForwardNever(f) == FALSE

\* if f is None: f = self.fields(m).compute()
NeedsForward(f) == f = NoF

\* the forward part of Jvec / Jtvec: a fields(m) run when no f was given
ForwardPart(m, f, fail, cleanFail) ==
    IF NeedsForward(f)
    THEN FieldsRun(dim, m, Ainv, model, fail, cleanFail)
    ELSE [ok |-> TRUE, model |-> model, Ainv |-> Ainv, F |-> f,
          nSolver |-> NoSolverCalls, cleaned |-> {}, cleanRaised |-> FALSE,
          uncleaned |-> {}]

TaskSlotByCompletion(k, done) == Cardinality(done) + 1

\* position of task k's result in the gathered output: dask keys results by
\* task, so concatenation follows the list the tasks were appended to
TaskSlot(k, done) == k

AccumulateOverwrite(acc, x) == x

\* Jtv += du_dmT.real
Accumulate(acc, x) == acc + x

Done == {results[p] : p \in DOMAIN results} \ {0}

RECURSIVE SumResults(_)
SumResults(p) ==
    IF p = 0 THEN 0
    ELSE Accumulate(SumResults(p - 1),
                    IF results[p] = 0 THEN 0 ELSE graph[results[p]].val)

\* da.concatenate(Jv, axis=0).compute()
GatherJv == [p \in 1..Len(graph) |-> graph[results[p]]]

\* ---------------------------------------------------------------- getJtJdiag
\* Python None for the argument k
NoK == 0 - 1

NoDiag == [m |-> 0, kIn |-> NoK, k |-> NoK, raw |-> <<>>, out |-> <<>>,
           status |-> "none"]

\* surveys with one source and one real receiver per frequency, the
\* receiver holding up to MaxDiagLoc locations
DiagSurveys ==
    {MakeSurvey([nF \in 1..n |-> <<1>>], NoRx, nloc) :
        n \in 1..MaxFreq, nloc \in 1..MaxDiagLoc}

\* if k is None: k = int(self.survey.nD / 10)
ProbeCount(k) == IF k = NoK THEN nD \div 10 ELSE k

\* the estimates diagEst(JtJv, len(m), k) can hand back: one entry per
\* model parameter, of either sign
RawEstimates == UNION {[1..n -> (0 - MaxRaw)..MaxRaw] : n \in 1..MaxParams}

\* np.max(JtJdiag)
RECURSIVE MaxOf(_)
MaxOf(x) ==
    IF Len(x) = 1 THEN x[1]
    ELSE LET t == MaxOf(Tail(x)) IN IF x[1] >= t THEN x[1] ELSE t

\* JtJdiag / np.max(JtJdiag): every entry as the fraction num / den
\* (den = 0 is the non-finite result of a division by zero)
Normalized(raw) == [i \in 1..Len(raw) |-> [num |-> raw[i], den |-> MaxOf(raw)]]

\* JtJv(v) = self.Jtvec(m, self.Jvec(m, v)): both run without fields, so
\* each runs fields(m), sets the model and walks its loop
ProbeRun(m) ==
    LET run == FieldsRun(dim, m, Ainv, model, NoFail, 0)
    IN  [ok    |-> /\ JvecLoop(PairSeq, run.Ainv, run.F, LoopStart).ok
                   /\ JtvecLoop(PairSeq, run.Ainv, run.F, LoopStart).ok,
         model |-> m,
         Ainv  |-> run.Ainv]

\* ---------------------------------------------------------------- actions
\* a simulation right after construction, on a survey with one source and
\* one receiver per frequency
Init ==
    /\ survey \in PlainSurveys
    /\ dim \in {1, 3}
    /\ model = NoModel
    /\ Ainv = <<>>
    /\ held = NoF
    /\ call = NoCall
    /\ graph = <<>>
    /\ results = <<>>
    /\ diag = NoDiag
    /\ proc = <<>>

\* a simulation right after construction, on any survey of the family
InitSurvey ==
    /\ survey \in Surveys
    /\ dim \in {1, 3}
    /\ model = NoModel
    /\ Ainv = <<>>
    /\ held = NoF
    /\ call = NoCall
    /\ graph = <<>>
    /\ results = <<>>
    /\ diag = NoDiag
    /\ proc = <<>>

\* a top-level fields(m) call (m = NoModel is fields() with m=None)
Fields(m, fail, cleanFail) ==
    /\ call.status # "running"
    /\ m = NoModel => model # NoModel
    /\ \E run \in {FieldsRun(dim, m, Ainv, model, fail, cleanFail)} :
           /\ model' = run.model
           /\ Ainv' = run.Ainv
           /\ held' = IF run.ok THEN run.F ELSE held
           /\ call' = [op |-> "fields", m |-> m, f |-> NoF,
                       status |-> IF run.ok THEN "ok" ELSE "error",
                       fail |-> fail, forward |-> TRUE,
                       nSolver |-> run.nSolver, applied |-> {},
                       F |-> run.F, Jv |-> <<>>, Jtv |-> 0, declLen |-> 0,
                       cleaned |-> run.cleaned,
                       cleanRaised |-> run.cleanRaised,
                       uncleaned |-> run.uncleaned, prev |-> Summary(call)]
    /\ UNCHANGED <<survey, dim, graph, results, diag, proc>>

\* Jvec(m, v, f) / Jtvec(m, v, f) up to the point where the task graph is
\* built: forward solve if f is None, self.model = m, the double loop with
\* its eager Ainv applications
Sensitivity(op, m, f, fail, cleanFail) ==
    /\ call.status # "running"
    /\ \E fwd \in {ForwardPart(m, f, fail, cleanFail)} :
       \E loop \in {IF op = "Jvec"
                    THEN JvecLoop(PairSeq, fwd.Ainv, fwd.F, LoopStart)
                    ELSE JtvecLoop(PairSeq, fwd.Ainv, fwd.F, LoopStart)} :
       \E ok \in {fwd.ok /\ loop.ok} :
           /\ model' = IF fwd.ok THEN m ELSE fwd.model
           /\ Ainv' = fwd.Ainv
           /\ call' = [op |-> op, m |-> m, f |-> f,
                       status |-> IF ok THEN "running" ELSE "error",
                       fail |-> IF NeedsForward(f) THEN fail ELSE NoFail,
                       forward |-> NeedsForward(f),
                       nSolver |-> fwd.nSolver,
                       applied |-> IF fwd.ok THEN loop.applied ELSE {},
                       F |-> NoF, Jv |-> <<>>, Jtv |-> 0, declLen |-> 0,
                       cleaned |-> fwd.cleaned,
                       cleanRaised |-> fwd.cleanRaised,
                       uncleaned |-> fwd.uncleaned, prev |-> Summary(call)]
           /\ graph' = IF ok THEN loop.tasks ELSE <<>>
           /\ results' = IF ok THEN [p \in 1..Len(loop.tasks) |-> 0] ELSE <<>>
    /\ UNCHANGED <<survey, dim, held, diag, proc>>

JvecCall(m, f, fail, cleanFail) == Sensitivity("Jvec", m, f, fail, cleanFail)

JtvecCall(m, f, fail, cleanFail) == Sensitivity("Jtvec", m, f, fail, cleanFail)

\* one delayed task of the graph is evaluated; the scheduler picks any
\* task that has not run yet
TaskRun(k) ==
    /\ call.status = "running"
    /\ k \in 1..Len(graph)
    /\ k \notin Done
    /\ results' = [results EXCEPT ![TaskSlot(k, Done)] = k]
    /\ UNCHANGED <<survey, dim, model, Ainv, held, call, graph, diag, proc>>

\* .compute() returns once every task has run
Return ==
    /\ call.status = "running"
    /\ Cardinality(Done) = Len(graph)
    /\ call' = [call EXCEPT
                  !.status = "ok",
                  !.Jv = IF call.op = "Jvec" THEN GatherJv ELSE <<>>,
                  !.declLen = IF call.op = "Jvec" THEN Len(graph) * m_dim ELSE 0,
                  !.Jtv = IF call.op = "Jtvec" THEN SumResults(Len(graph)) ELSE 0]
    /\ graph' = <<>>
    /\ results' = <<>>
    /\ UNCHANGED <<survey, dim, model, Ainv, held, diag, proc>>

\* getJtJdiag(m, k): the probe count, the k probes of the estimator, the
\* division by the maximum entry
GetJtJdiag(m, kIn, raw) ==
    /\ call.status # "running"
    /\ LET k     == ProbeCount(kIn)
           probe == ProbeRun(m)
           ok    == k = 0 \/ probe.ok
       IN  /\ model' = IF k = 0 THEN model ELSE probe.model
           /\ Ainv' = IF k = 0 THEN Ainv ELSE probe.Ainv
           /\ diag' = [m |-> m, kIn |-> kIn, k |-> k,
                       raw |-> IF ok THEN raw ELSE <<>>,
                       out |-> IF ok THEN Normalized(raw) ELSE <<>>,
                       status |-> IF ok THEN "ok" ELSE "error"]
    /\ UNCHANGED <<survey, dim, held, call, graph, results, proc>>

\* the fields objects the caller can pass: none, or the one it holds
FieldsArgs == IF held = NoF THEN {NoF} ELSE {NoF, held}

\* failures that can strike a call: only a forward solve factorizes
FailFor(f) == IF NeedsForward(f) THEN FailChoices ELSE {NoFail}

\* clean() can only raise on a slot it is called on
CleanFailFor(f) ==
    IF NeedsForward(f) /\ dim = 3 THEN {0} \cup Cleaned(Ainv, 0) ELSE {0}

Next ==
    \/ \E m \in Models \cup {NoModel}, fail \in FailFor(NoF),
          cleanFail \in CleanFailFor(NoF) : Fields(m, fail, cleanFail)
    \/ \E m \in Models, f \in FieldsArgs :
          \E fail \in FailFor(f), cleanFail \in CleanFailFor(f) :
              JvecCall(m, f, fail, cleanFail)
    \/ \E m \in Models, f \in FieldsArgs :
          \E fail \in FailFor(f), cleanFail \in CleanFailFor(f) :
              JtvecCall(m, f, fail, cleanFail)
    \/ \E k \in 1..Len(graph) : TaskRun(k)
    \/ Return

Spec == Init /\ [][Next]_vars

\* one sensitivity call on a fresh simulation, its tasks run in any order
NextSurvey ==
    \/ \E m \in Models, fail \in FailFor(NoF) :
          call.op = "none" /\ JvecCall(m, NoF, fail, 0)
    \/ \E m \in Models, fail \in FailFor(NoF) :
          call.op = "none" /\ JtvecCall(m, NoF, fail, 0)
    \/ \E k \in 1..Len(graph) : TaskRun(k)
    \/ Return

SpecSurvey == InitSurvey /\ [][NextSurvey]_vars

\* a simulation right after construction, on a survey with many data
InitDiag ==
    /\ survey \in DiagSurveys
    /\ dim \in {1, 3}
    /\ model = NoModel
    /\ Ainv = <<>>
    /\ held = NoF
    /\ call = NoCall
    /\ graph = <<>>
    /\ results = <<>>
    /\ diag = NoDiag
    /\ proc = <<>>

\* one getJtJdiag call on a fresh simulation
NextDiag ==
    \E m \in Models, kIn \in {NoK} \cup 1..MaxProbes, raw \in RawEstimates :
        diag.status = "none" /\ GetJtJdiag(m, kIn, raw)

SpecDiag == InitDiag /\ [][NextDiag]_vars

\* ---------------------------------------------------------------- delayed fields
\* fields is a dask.delayed method: two computations fields(m1), fields(m2)
\* of one simulation handed to the scheduler together run in two threads on
\* the same self.model and self.Ainv, statement by statement.
NoSystem == [m |-> 0, nf |-> 0]

NewComputation(m) ==
    [m |-> m, pc |-> "start", nf |-> 1, A |-> NoSystem, F |-> {}]

\* if m is not None: self.model = m
SetModelStep(p) ==
    /\ proc[p].pc = "start"
    /\ model' = SetModel(proc[p].m, model)
    /\ proc' = [proc EXCEPT ![p].pc = "reset"]
    /\ UNCHANGED <<survey, dim, Ainv, held, call, graph, results, diag>>

\* F = self.fieldsPair(self); the silent clean-up;
\* self.Ainv = [None for i in range(self.survey.num_frequencies)]
ResetStep(p) ==
    /\ proc[p].pc = "reset"
    /\ Ainv' = [i \in 1..num_frequencies |-> NoneF]
    /\ proc' = [proc EXCEPT ![p].pc = "assemble"]
    /\ UNCHANGED <<survey, dim, model, held, call, graph, results, diag>>

\* A = self.getA(freq); rhs = self.getRHS(freq): read self.model as it is now
AssembleStep(p) ==
    /\ proc[p].pc = "assemble"
    /\ proc' = [proc EXCEPT ![p].A = [m |-> model, nf |-> proc[p].nf],
                            ![p].pc = "factorize"]
    /\ UNCHANGED <<survey, dim, model, Ainv, held, call, graph, results, diag>>

\* self.Ainv[nf] = self.Solver(A, **self.solver_opts)
FactorizeStep(p) ==
    /\ proc[p].pc = "factorize"
    /\ Ainv' = [Ainv EXCEPT ![proc[p].nf] = proc[p].A]
    /\ proc' = [proc EXCEPT ![p].pc = "solve"]
    /\ UNCHANGED <<survey, dim, model, held, call, graph, results, diag>>

\* e_s = self.Ainv[nf] * rhs; F[Src, ...] = e_s: the slot is read again, and
\* a slot the other computation has emptied meanwhile raises
SolveStep(p) ==
    /\ proc[p].pc = "solve"
    /\ LET nf == proc[p].nf
       IN  proc' =
             IF Ainv[nf] = NoneF
             THEN [proc EXCEPT ![p].pc = "error"]
             ELSE [proc EXCEPT
                     ![p].F = @ \cup {[nf |-> nf, am |-> proc[p].A.m,
                                       fm |-> Ainv[nf].m]},
                     ![p].nf = IF nf < num_frequencies THEN nf + 1 ELSE nf,
                     ![p].pc = IF nf < num_frequencies
                               THEN "assemble" ELSE "done"]
    /\ UNCHANGED <<survey, dim, model, Ainv, held, call, graph, results, diag>>

\* two delayed 3-D fields computations for different models, not yet started
InitRace ==
    /\ survey \in PlainSurveys
    /\ dim = 3
    /\ model = NoModel
    /\ Ainv = <<>>
    /\ held = NoF
    /\ call = NoCall
    /\ graph = <<>>
    /\ results = <<>>
    /\ diag = NoDiag
    /\ proc \in {<<NewComputation(ms[1]), NewComputation(ms[2])>> :
                    ms \in {x \in Models \X Models : x[1] # x[2]}}

NextRace ==
    \/ \E p \in DOMAIN proc : SetModelStep(p)
    \/ \E p \in DOMAIN proc : ResetStep(p)
    \/ \E p \in DOMAIN proc : AssembleStep(p)
    \/ \E p \in DOMAIN proc : FactorizeStep(p)
    \/ \E p \in DOMAIN proc : SolveStep(p)

SpecRace == InitRace /\ [][NextRace]_vars

\* ---------------------------------------------------------------- claims
SensitivityOps == {"Jvec", "Jtvec"}

FullCache(m) == [i \in 1..num_frequencies |-> [m |-> m, nf |-> i]]

\* C1: on a 3-D simulation every non-empty slot of Ainv holds a
\* factorization built from the simulation's current model.
C1_CacheMatchesModel ==
    dim = 3 =>
        \A i \in DOMAIN Ainv : Ainv[i] # NoneF => Ainv[i].m = model

\* C2 (as stated): after fields(m) has completed, a following Jvec(m, v)
\* called without a fields argument constructs no solver, so every frequency
\* sees exactly one solver construction over the two calls.
C2_NoRefactorizationWithoutFields ==
    (/\ dim = 3
     /\ call.op = "Jvec"
     /\ call.f = NoF
     /\ call.prev.op = "fields"
     /\ call.prev.F.m = call.m)
    => \A i \in 1..num_frequencies :
           call.prev.nSolver[i] + call.nSolver[i] = 1

\* C2 (amended): after fields(m) has completed, a following Jvec(m, v, f)
\* that is passed the fields object f returned by that call constructs no
\* solver: every frequency sees exactly one construction over the two calls.
C2_NoRefactorizationWithFields ==
    (/\ dim = 3
     /\ call.op = "Jvec"
     /\ call.f # NoF
     /\ call.f = call.prev.F
     /\ call.prev.op = "fields"
     /\ call.prev.F.m = call.m)
    => \A i \in 1..num_frequencies :
           call.prev.nSolver[i] + call.nSolver[i] = 1

C2_Witness ==
    /\ dim = 3
    /\ call.op = "Jvec"
    /\ call.status = "ok"
    /\ call.f # NoF
    /\ call.f = call.prev.F
    /\ call.prev.F.m = call.m
    /\ num_frequencies >= 2
    /\ call.applied = {Ainv[i] : i \in 1..num_frequencies}

\* C3: Jvec / Jtvec called without a fields argument run a complete forward
\* solve for m first: a factorization is applied only after every frequency
\* was factorized in this call, every applied factorization was built from
\* m, and on return the simulation's model is m.
C3_ForwardSolveFirst ==
    (call.op \in SensitivityOps /\ call.f = NoF)
    => /\ call.forward
       /\ call.applied # {} =>
              \A i \in 1..num_frequencies : call.nSolver[i] = 1
       /\ \A a \in call.applied : a.m = call.m /\ a = Ainv[a.nf]
       /\ call.status = "ok" => model = call.m /\ call.applied # {}

C3_Witness ==
    /\ call.op \in SensitivityOps
    /\ call.f = NoF
    /\ call.status = "ok"
    /\ call.prev.op = "fields"
    /\ call.prev.F.m # call.m
    /\ Cardinality(call.applied) >= 2

\* C4: when a 3-D fields(m2) returns normally right after a fields(m1) with
\* m1 # m2, every slot of the cache holds the factorization of its frequency
\* built from m2, and a following Jvec / Jtvec given the returned fields
\* applies only those.
C4_FieldsReplacesCache ==
    /\ (/\ dim = 3
        /\ call.op = "fields"
        /\ call.status = "ok"
        /\ call.prev.op = "fields"
        /\ call.prev.F.m # call.F.m)
       => Ainv = FullCache(call.F.m)
    /\ (/\ dim = 3
        /\ call.op \in SensitivityOps
        /\ call.prev.op = "fields"
        /\ call.f = call.prev.F)
       => call.applied \subseteq {FullCache(call.f.m)[i] : i \in 1..num_frequencies}

C4_Witness ==
    /\ dim = 3
    /\ call.op = "fields"
    /\ call.status = "ok"
    /\ call.prev.op = "fields"
    /\ call.prev.F.m # call.F.m
    /\ num_frequencies >= 2
    /\ call.cleaned = 1..num_frequencies

\* the survey's (frequency, source, receiver) triples and their rank in
\* survey order: frequency first, then source, then receiver
Triples ==
    {t \in (1..Len(survey)) \X (1..MaxSrc + 1) \X (1..MaxRx + 1) :
        t[2] <= Len(survey[t[1]]) /\ t[3] <= Len(survey[t[1]][t[2]])}

Before(a, b) ==
    \/ a[1] < b[1]
    \/ a[1] = b[1] /\ a[2] < b[2]
    \/ a[1] = b[1] /\ a[2] = b[2] /\ a[3] < b[3]

SurveyRank(t) == 1 + Cardinality({a \in Triples : Before(a, t)})

\* C5: whatever order the delayed receiver tasks of Jvec complete in, the
\* k-th block of the returned Jv is the contribution of the k-th
\* (frequency, source, receiver) triple of the survey.
C5_JvInSurveyOrder ==
    (call.op = "Jvec" /\ call.status = "ok")
    => /\ Len(call.Jv) = Cardinality(Triples)
       /\ \A k \in 1..Len(call.Jv) :
              SurveyRank(<<call.Jv[k].nF, call.Jv[k].s, call.Jv[k].r>>) = k

C5_Witness ==
    /\ call.op = "Jvec"
    /\ call.status = "ok"
    /\ Len(survey) = 2
    /\ Len(survey[1]) = 2
    /\ Len(survey[2][1]) = 2
    /\ Len(call.Jv) = 4

Pairs == {<<t[1], t[2]>> : t \in Triples}

RECURSIVE SumOver(_, _, _)
SumOver(S, m, f) ==
    IF S = {} THEN 0
    ELSE LET p == CHOOSE x \in S : TRUE
         IN  du_dmT(p[1], FieldOf(f, p[1], p[2]), m * PTv(p[1], p[2]))
             + SumOver(S \ {p}, m, f)

\* C6: the vector Jtvec returns is the sum of the real part of
\* (-getADeriv + getRHSDeriv) over every (frequency, source) pair of the
\* survey taken exactly once, whatever order the delayed tasks run in.
C6_JtvIsSumOverPairs ==
    (call.op = "Jtvec" /\ call.status = "ok")
    => call.Jtv = SumOver(Pairs, call.m, FieldsObject(call.m, NoFail))

C6_Witness ==
    /\ call.op = "Jtvec"
    /\ call.status = "ok"
    /\ Cardinality(Pairs) >= 3
    /\ call.Jtv # 0

\* C7: the length of the vector Jvec assembles, the declared block length
\* m_dim summed over all appended blocks, is the survey's data count nD.
C7_JvLengthIsND ==
    (call.op = "Jvec" /\ call.status = "ok") => call.declLen = nD

\* C8: a factorization or solve failure at any one frequency ends the whole
\* fields(m) call in an error; no fields object is returned, and the caller
\* never holds one that lacks a frequency.
C8_FailureIsFatal ==
    /\ (call.op = "fields" /\ call.fail.at # 0)
       => call.status = "error" /\ call.F = NoF
    /\ held # NoF => \A i \in 1..num_frequencies : <<i, 1>> \in held.stored

C8_Witness ==
    /\ call.op = "fields"
    /\ call.fail.at = 2
    /\ call.status = "error"
    /\ call.nSolver[1] = 1

HasBadComponent == \E p \in Pairs : BadComponent(p[1], p[2])

\* C9: with a receiver whose component is neither real nor imag in the
\* survey, Jtvec fails before any solve: no forward factorization and no
\* application of a cached factorization precedes the error.
C9_FailsBeforeAnySolve ==
    (call.op = "Jtvec" /\ HasBadComponent)
    => /\ call.status = "error"
       /\ ~call.forward
       /\ call.applied = {}

\* C10: with a receiver whose component is outside {real, imag} in the
\* survey, neither Jvec nor Jtvec returns a result.
C10_BadComponentNeverReturns ==
    (call.op \in SensitivityOps /\ HasBadComponent) => call.status # "ok"

\* C11 (as stated): when clean() raises on a held factorization while
\* fields(m) replaces the cache, the fields(m) call ends in an error.
C11_CleanFailureSurfaces ==
    (dim = 3 /\ call.op = "fields" /\ call.cleanRaised)
    => call.status = "error"

\* C15 (as stated): whenever 3-D fields() replaces the cache, clean() has
\* been called on every factorization the cache held before the call.
C15_EveryHeldFactorizationReleased ==
    (dim = 3 /\ call.forward) => call.uncleaned = {}

\* C16 (as stated): in both variants, once fields(m) has returned every
\* slot of the cache holds that frequency's factorization, and a Jvec /
\* Jtvec given the returned fields finds every slot filled, constructs no
\* solver and releases or replaces no slot.
C16_FactorizationsStayCached ==
    /\ (call.op = "fields" /\ call.status = "ok") => Ainv = FullCache(model)
    /\ (/\ call.op \in SensitivityOps
        /\ call.prev.op = "fields"
        /\ call.f = call.prev.F)
       => /\ call.status # "error"
          /\ Ainv = FullCache(call.f.m)
          /\ call.nSolver = NoSolverCalls
          /\ call.cleaned = {}

\* C18 (as stated): the fields object read by the Jvec / Jtvec loops holds
\* a stored field for every source of every frequency.
C18_EverySourceHasField ==
    (call.op \in SensitivityOps /\ call.status = "running")
    => \A k \in 1..Len(graph) : graph[k].ustored

\* C19 (as stated): if 3-D fields(m) fails at frequency k, factorizing or
\* solving, the model is m, slots below k hold factorizations built from m
\* and slots k and above are empty.
C19_FailureLeavesPrefix ==
    (/\ dim = 3
     /\ call.op = "fields"
     /\ call.m # NoModel
     /\ call.fail.at # 0)
    => /\ model = call.m
       /\ \A i \in 1..num_frequencies :
              Ainv[i] = IF i < call.fail.at THEN [m |-> call.m, nf |-> i]
                        ELSE NoneF

\* C19 (amended): if 3-D fields(m) fails at frequency k, the model is m and
\* slots below k hold factorizations built from m; slot k is empty when
\* the factorization failed and holds the factorization built from m when
\* the solve failed; slots above k are empty.
C19_FailureLeavesPrefixOrSlot ==
    (/\ dim = 3
     /\ call.op = "fields"
     /\ call.m # NoModel
     /\ call.fail.at # 0)
    => /\ model = call.m
       /\ \A i \in 1..num_frequencies :
              Ainv[i] = IF \/ i < call.fail.at
                           \/ i = call.fail.at /\ call.fail.kind = "solve"
                        THEN [m |-> call.m, nf |-> i]
                        ELSE NoneF

C19_Witness ==
    /\ dim = 3
    /\ call.op = "fields"
    /\ call.m # NoModel
    /\ call.fail = [at |-> 1, kind |-> "solve"]
    /\ num_frequencies >= 2
    /\ call.cleaned = 1..num_frequencies
    /\ Ainv[1].m = call.m

MaxInt(a, b) == IF a >= b THEN a ELSE b

\* C12 (as stated): called with k = None, getJtJdiag passes
\* max(1, floor(nD / 10)) probe vectors to the estimator, never 0.
C12_DefaultProbeCount ==
    (diag.status # "none" /\ diag.kIn = NoK)
    => diag.k = MaxInt(1, nD \div 10) /\ diag.k >= 1

\* q <= 1, q >= -1 and q = 1 for a fraction q = num / den
AtMostOne(q) ==
    \/ q.den > 0 /\ q.num <= q.den
    \/ q.den < 0 /\ q.num >= q.den

AtLeastMinusOne(q) ==
    \/ q.den > 0 /\ q.num >= 0 - q.den
    \/ q.den < 0 /\ q.num <= 0 - q.den

IsOne(q) == q.den # 0 /\ q.num = q.den

\* C13 (as stated): for every raw estimate, the vector getJtJdiag returns
\* has maximum entry exactly 1 and every entry within [-1, 1].
C13_NormalizedWithinUnit ==
    diag.status = "ok"
    => /\ \E i \in 1..Len(diag.out) : IsOne(diag.out[i])
       /\ \A i \in 1..Len(diag.out) :
              AtMostOne(diag.out[i]) /\ AtLeastMinusOne(diag.out[i])

\* C17 (as stated): when two delayed 3-D fields computations for different
\* models run interleaved, each assembles and solves only with its own
\* model, and when both have finished all cache slots hold factorizations
\* of one and the same model.
C17_ComputationsDoNotMix ==
    /\ \A p \in DOMAIN proc :
          /\ proc[p].A # NoSystem => proc[p].A.m = proc[p].m
          /\ \A e \in proc[p].F : e.am = proc[p].m /\ e.fm = proc[p].m
    /\ (\A p \in DOMAIN proc : proc[p].pc = "done")
       => \E m \in Models : Ainv = FullCache(m)

====
